---- MODULE Spec2Model ----
(***************************************************************************)
(* A model of VisionLabel's upload pipeline (src/app.py): the /upload      *)
(* handler, the namer unique_name, the normalizer pil_auto_prepare, the    *)
(* pixel-box arithmetic of the drawing loop and draw_label_box.            *)
(*                                                                         *)
(* Strings are sequences of tokens: a token is one character, or a run of *)
(* characters that stays together ("labeled_", "jpg", "JPG", "gif").       *)
(* Python floats are exact rationals                                       *)
(* <<numerator, denominator>>.  A Python dict is a function whose DOMAIN   *)
(* is the set of keys present, read with Get (dict.get).                   *)
(***************************************************************************)
EXTENDS Integers, Sequences, FiniteSets, TLC

\* ------------------------------------------------------------------ bounds
\* The clock runs over the seconds 0..MaxTime.
MaxTime == 1
\* uuid4().hex[:8] is drawn from 0..MaxRand (the code: from 0..2^32-1).
MaxRand == 1
\* Rekognition returns at most MaxLabels labels here (the code asks for 10).
MaxLabels == 2

\* ------------------------------------------------------------- rationals
RECURSIVE GCD(_, _)
GCD(a, b) == IF b = 0 THEN a ELSE GCD(b, a % b)

Abs(n) == IF n < 0 THEN -n ELSE n

\* n/d in lowest terms with a positive denominator
Rat(n, d) ==
    LET g == GCD(Abs(n), Abs(d))
        s == IF d < 0 THEN -1 ELSE 1
    IN  << (s * n) \div g, (s * d) \div g >>

RInt(k) == << k, 1 >>
RMul(a, b) == Rat(a[1] * b[1], a[2] * b[2])
RAdd(a, b) == Rat(a[1] * b[2] + b[1] * a[2], a[2] * b[2])
RSub(a, b) == Rat(a[1] * b[2] - b[1] * a[2], a[2] * b[2])
RLess(a, b) == a[1] * b[2] < b[1] * a[2]
RMax(a, b) == IF RLess(a, b) THEN b ELSE a

\* dict.get(k, default)
Get(d, k, default) == IF k \in DOMAIN d THEN d[k] ELSE default

\* ---------------------------------------------------------------- strings
Lower(c) == CASE c = "JPG" -> "jpg" [] c = "PNG" -> "png" [] OTHER -> c

\* the index of the last "." of s, 0 when s holds none
LastDot(s) ==
    LET dots == { i \in 1..Len(s) : s[i] = "." }
    IN  IF dots = {} THEN 0 ELSE CHOOSE i \in dots : \A j \in dots : j <= i

ALLOWED_EXTENSIONS == { <<"png">>, <<"jpg">>, <<"jpeg">> }

\* "." in filename and filename.rsplit(".", 1)[1].lower() in ALLOWED_EXTENSIONS
allowed_file(filename) ==
    /\ LastDot(filename) > 0
    /\ LET ext == SubSeq(filename, LastDot(filename) + 1, Len(filename))
       IN  [ i \in 1..Len(ext) |-> Lower(ext[i]) ] \in ALLOWED_EXTENSIONS

RECURSIVE LStrip(_)
LStrip(s) ==
    IF s # <<>> /\ Head(s) \in {".", "_"} THEN LStrip(Tail(s)) ELSE s

RECURSIVE RStrip(_)
RStrip(s) ==
    IF s # <<>> /\ s[Len(s)] \in {".", "_"}
    THEN RStrip(SubSeq(s, 1, Len(s) - 1)) ELSE s

\* werkzeug's secure_filename on the tokens used here: a path separator
\* becomes "_", then leading and trailing "." and "_" are stripped.
secure_filename(s) ==
    RStrip(LStrip([ i \in 1..Len(s) |-> IF s[i] = "/" THEN "_" ELSE s[i] ]))

\* os.path.splitext: the extension starts at the last "." unless that dot
\* leads the name
splitext(base) ==
    LET k == LastDot(base)
    IN  IF k <= 1 THEN << base, <<>> >>
        ELSE << SubSeq(base, 1, k - 1), SubSeq(base, k, Len(base)) >>

Digit == << "0", "1", "2", "3", "4", "5", "6", "7", "8", "9",
            "a", "b", "c", "d", "e", "f" >>

\* two decimal digits
D2(n) == << Digit[((n \div 10) % 10) + 1], Digit[(n % 10) + 1] >>

\* strftime('%Y%m%d-%H%M%S') of second t of the day the model runs in
strftime(t) ==
    << "2", "0", "2", "4", "0", "1", "0", "1", "-" >>
        \o D2(t \div 3600) \o D2((t \div 60) % 60) \o D2(t % 60)

RECURSIVE HexDigits(_, _)
HexDigits(v, n) ==
    IF n = 0 THEN <<>> ELSE HexDigits(v \div 16, n - 1) \o << Digit[(v % 16) + 1] >>

\* uuid4().hex[:8] of the random value v
hex8(v) == HexDigits(v, 8)

\* a mutant: the name carries no random suffix
unique_name_no_suffix(original_name, prefix, t, v) ==
    LET base == secure_filename(original_name)
        stem == splitext(base)[1]
        ext  == splitext(base)[2]
    IN  prefix \o stem \o <<"_">> \o strftime(t)
            \o (IF ext # <<>> THEN ext ELSE <<".", "jpg">>)

\* unique_name(original_name, prefix) when utcnow() is second t and uuid4()
\* draws v
unique_name(original_name, prefix, t, v) ==
    LET base == secure_filename(original_name)
        stem == splitext(base)[1]
        ext  == splitext(base)[2]
    IN  prefix \o stem \o <<"_">> \o strftime(t) \o <<"_">> \o hex8(v)
            \o (IF ext # <<>> THEN ext ELSE <<".", "jpg">>)

LABELED == << "labeled_" >>

\* ----------------------------------------------------------------- images
\* An image: its mode, its size <<w, h>>, its EXIF orientation and the values
\* of its sampled pixels, data[i] being the pixel that source pixel i became.
Levels == {0, 128, 255}

PixelsOf(mode) ==
    CASE mode = "L"    -> { <<l>> : l \in Levels }
      [] mode = "LA"   -> { <<l, a>> : l \in {0, 255}, a \in Levels }
      [] mode = "RGB"  -> { <<r, g, 255>> : r \in {0, 255}, g \in {0, 255} }
      [] mode = "RGBA" -> { <<r, g, 0, a>> : r \in {0, 255}, g \in {0, 255}, a \in Levels }

Modes == {"L", "LA", "RGB", "RGBA"}
Orientations == {1, 6}
Sizes == { <<4, 4>>, <<8, 4>> }

ImagesOf(modes, sizes) ==
    UNION { [ mode : {m}, size : sizes, orientation : Orientations,
              data : [ 1..1 -> PixelsOf(m) ] ] : m \in modes }

Images == ImagesOf(Modes, Sizes)

\* ImageOps.exif_transpose: orientations 5..8 swap width and height; the
\* result carries no orientation tag
exif_transpose(img) ==
    [ img EXCEPT !.size = IF img.orientation \in 5..8
                          THEN << img.size[2], img.size[1] >> ELSE img.size,
                 !.orientation = 1 ]

\* Image.convert("RGB") of the modes L and LA: the luminance in each channel,
\* the alpha band dropped
convert_RGB(img) ==
    [ img EXCEPT !.mode = "RGB",
                 !.data = [ i \in DOMAIN img.data |->
                     CASE img.mode \in {"L", "LA"} ->
                            << img.data[i][1], img.data[i][1], img.data[i][1] >>
                       [] OTHER -> SubSeq(img.data[i], 1, 3) ] ]

\* Pillow's DIV255(a) = (a + 128 + ((a + 128) >> 8)) >> 8
DIV255(a) == (((a + 128) \div 256) + (a + 128)) \div 256

\* Pillow's BLEND(mask, in1, in2)
BLEND(mask, in1, in2) == DIV255(in1 * (255 - mask) + in2 * mask)

WHITE == << 255, 255, 255 >>

\* bg = Image.new("RGB", size, white); bg.paste(img, mask=img.split()[3])
flatten(img) ==
    [ img EXCEPT !.mode = "RGB",
                 !.data = [ i \in DOMAIN img.data |->
                     [ c \in 1..3 |-> BLEND(img.data[i][4], WHITE[c], img.data[i][c]) ] ] ]

\* pil_auto_prepare: transpose, convert what is neither RGB nor RGBA, flatten RGBA
pil_auto_prepare(pil_img) ==
    LET t == exif_transpose(pil_img)
        c == IF t.mode \notin {"RGB", "RGBA"} THEN convert_RGB(t) ELSE t
    IN  IF c.mode = "RGBA" THEN flatten(c) ELSE c

\* ------------------------------------------------------------- detections
\* A detection result is a sequence of labels; a label is a dict with the keys
\* Name, Confidence, Instances; an instance a dict with BoundingBox and
\* Confidence; a box a dict with Left, Top, Width, Height.
Q(n, d) == Rat(n, d)

CenterBox == [ Left |-> Q(1, 4), Top |-> Q(1, 4), Width |-> Q(1, 2), Height |-> Q(1, 2) ]

\* a mutant: the fake labels carry a box in the top-left quarter
DryRunLabelsShifted ==
    << [ Name |-> "SampleObject", Confidence |-> Q(991, 10),
         Instances |-> << [ BoundingBox |-> [ CenterBox EXCEPT !.Left = Q(0, 1) ],
                            Confidence |-> Q(991, 10) ] >> ] >>

\* the labels the handler fakes when DRY_RUN is set
DryRunLabels ==
    << [ Name |-> "SampleObject", Confidence |-> Q(991, 10),
         Instances |-> << [ BoundingBox |-> CenterBox, Confidence |-> Q(991, 10) ] >> ] >>

\* `if not box`: a missing BoundingBox (None) and an empty one are both falsy
Truthy(inst) ==
    /\ "BoundingBox" \in DOMAIN inst
    /\ DOMAIN inst.BoundingBox # {}

\* a mutant: the box is clamped to the canvas
PixelBoxClamped(img_w, img_h, box) ==
    LET left   == RMax(RMul(RInt(img_w), Get(box, "Left", RInt(0))), RInt(0))
        top    == RMax(RMul(RInt(img_h), Get(box, "Top", RInt(0))), RInt(0))
        width  == RMul(RInt(img_w), Get(box, "Width", RInt(0)))
        height == RMul(RInt(img_h), Get(box, "Height", RInt(0)))
    IN  << left, top, RAdd(left, width), RAdd(top, height) >>

\* xy = (left, top, left + width, top + height) of the drawing loop
PixelBox(img_w, img_h, box) ==
    LET left   == RMul(RInt(img_w), Get(box, "Left", RInt(0)))
        top    == RMul(RInt(img_h), Get(box, "Top", RInt(0)))
        width  == RMul(RInt(img_w), Get(box, "Width", RInt(0)))
        height == RMul(RInt(img_h), Get(box, "Height", RInt(0)))
    IN  << left, top, RAdd(left, width), RAdd(top, height) >>

\* round(x, 1): to the nearest tenth, a tie to the even one
Round1(x) ==
    LET n == 2 * 10 * x[1] + x[2]
        d == 2 * x[2]
        f == n \div d
    IN  IF n % d = 0 /\ f % 2 = 1 THEN Rat(f - 1, 10) ELSE Rat(f, 10)

\* f"{label['Name']} ({round(label.get('Confidence', 0.0), 1)}%)"
LabelText(label) ==
    [ name |-> label.Name, conf |-> Round1(Get(label, "Confidence", RInt(0))) ]

\* the number of characters of the decimal numeral of n >= 0
RECURSIVE NumLen(_)
NumLen(n) == IF n < 10 THEN 1 ELSE 1 + NumLen(n \div 10)

\* len of the label text: the name, " (", the number with one decimal, "%)"
TextLen(text) ==
    LET ip == text.conf[1] \div text.conf[2]
    IN  Len(text.name) + 2 + (IF ip < 0 THEN 1 + NumLen(-ip) ELSE NumLen(ip)) + 2 + 2

\* the two fonts of draw_label_box, as the width of a character and the
\* height of a line, in pixels (metrics of the size these fonts have; the
\* arithmetic of draw_label_box reads them only through textbbox)
ARIAL == [ cw |-> 9, ch |-> 15 ]
DEFAULT_FONT == [ cw |-> 6, ch |-> 11 ]

\* ImageFont.truetype("arial.ttf", 16), and load_default() when that raises
LoadFont(arial) == IF arial THEN ARIAL ELSE DEFAULT_FONT

\* draw.textbbox((0, 0), label_text, font=font)[2:]
textbbox(text, font) == << font.cw * TextLen(text), font.ch >>

pad == 4

\* a mutant: the label background is not kept below row 0
draw_label_box_unclamped(xy_box, label_text, font) ==
    LET left      == xy_box[1]
        top       == xy_box[2]
        text_w    == textbbox(label_text, font)[1]
        text_h    == textbbox(label_text, font)[2]
        bg_left   == left
        bg_top    == RSub(top, RInt(text_h + 2 * pad))
        bg_right  == RAdd(left, RInt(text_w + 2 * pad))
        bg_bottom == RAdd(bg_top, RInt(text_h + 2 * pad))
    IN  << [ op |-> "outline", xy |-> xy_box, text |-> label_text ],
           [ op |-> "fill", xy |-> << bg_left, bg_top, bg_right, bg_bottom >>,
             text |-> label_text ],
           [ op |-> "text",
             xy |-> << RAdd(bg_left, RInt(pad)), RAdd(bg_top, RInt(pad)),
                       RAdd(bg_left, RInt(pad)), RAdd(bg_top, RInt(pad)) >>,
             text |-> label_text ] >>

\* draw_label_box: the three calls it makes on the drawing surface, in order
\* (the red outline, the white label background, the red text)
draw_label_box(xy_box, label_text, font) ==
    LET left      == xy_box[1]
        top       == xy_box[2]
        text_w    == textbbox(label_text, font)[1]
        text_h    == textbbox(label_text, font)[2]
        bg_left   == left
        bg_top    == RMax(RSub(top, RInt(text_h + 2 * pad)), RInt(0))
        bg_right  == RAdd(left, RInt(text_w + 2 * pad))
        bg_bottom == RAdd(bg_top, RInt(text_h + 2 * pad))
    IN  << [ op |-> "outline", xy |-> xy_box, text |-> label_text ],
           [ op |-> "fill", xy |-> << bg_left, bg_top, bg_right, bg_bottom >>,
             text |-> label_text ],
           [ op |-> "text",
             xy |-> << RAdd(bg_left, RInt(pad)), RAdd(bg_top, RInt(pad)),
                       RAdd(bg_left, RInt(pad)), RAdd(bg_top, RInt(pad)) >>,
             text |-> label_text ] >>

\* for inst in label.get("Instances", []): ... draw_label_box(draw, xy, text)
RECURSIVE DrawInstances(_, _, _, _, _)
DrawInstances(label, insts, img_w, img_h, font) ==
    IF insts = <<>> THEN <<>>
    ELSE LET inst == Head(insts)
             rest == DrawInstances(label, Tail(insts), img_w, img_h, font)
         IN  IF ~Truthy(inst) THEN rest
             ELSE draw_label_box(PixelBox(img_w, img_h, inst.BoundingBox),
                                 LabelText(label), font) \o rest

\* a mutant: the labels are drawn last to first
RECURSIVE DrawLabelsReversed(_, _, _, _)
DrawLabelsReversed(labels, img_w, img_h, font) ==
    IF labels = <<>> THEN <<>>
    ELSE DrawLabelsReversed(Tail(labels), img_w, img_h, font)
            \o DrawInstances(Head(labels), Get(Head(labels), "Instances", <<>>),
                             img_w, img_h, font)

\* for label in labels: the drawing loop of upload
RECURSIVE DrawLabels(_, _, _, _)
DrawLabels(labels, img_w, img_h, font) ==
    IF labels = <<>> THEN <<>>
    ELSE DrawInstances(Head(labels), Get(Head(labels), "Instances", <<>>),
                       img_w, img_h, font)
            \o DrawLabels(Tail(labels), img_w, img_h, font)

\* ------------------------------------------------------------- the state
VARIABLES
    DRY_RUN,    \* the REKOGNITION_DRY_RUN toggle, read once at start
    now,        \* the UTC second the clock showed when it was last read
    storage,    \* static/uploads: file name -> what was last written there
    req         \* per request: the handler's position and its local variables

vars == << DRY_RUN, now, storage, req >>

Requests == {"r1", "r2"}

NoImage == [ mode |-> "none", size |-> <<0, 0>>, orientation |-> 1, data |-> <<>> ]
NoCall == [ t |-> -1, v |-> -1 ]
NoResponse ==
    [ status |-> 0, body |-> "", original_image |-> <<>>, labeled_image |-> <<>>,
      labels |-> <<>> ]

\* the message prefixes of the handler's error returns
MSG_NO_FILE == "No file uploaded"
MSG_NO_NAME == "No selected file"
MSG_BAD_TYPE == "Invalid file type. Only JPG and PNG allowed."
MSG_IMAGE == "Image processing error"
MSG_AWS == "AWS Rekognition error"
\* what Flask answers when an exception leaves the handler
MSG_UNHANDLED == "Internal Server Error"

\* The fields of req[r].  pc is the line the handler is at; filename, stream,
\* original_name, labeled_name, pil, labels are its local variables; font is
\* the font draw_label_box loaded and drawn what has been drawn onto pil.  The others record what happened: trace the
\* pipeline states passed, wrote the writes made, calls the detect_labels calls made
\* and what each answered, failed_at the operation that raised, original_call and
\* labeled_call the clock and random value of the two unique_name calls.
Idle ==
    [ pc |-> "idle", filename |-> <<>>, stream |-> [ kind |-> "none", img |-> NoImage ],
      original_name |-> <<>>, labeled_name |-> <<>>,
      original_call |-> NoCall, labeled_call |-> NoCall,
      pil |-> NoImage, labels |-> <<>>, font |-> DEFAULT_FONT, drawn |-> <<>>,
      response |-> NoResponse, trace |-> <<>>, wrote |-> <<>>, calls |-> <<>>,
      failed_at |-> "none" ]

Init ==
    /\ DRY_RUN \in BOOLEAN
    /\ now = 0
    /\ storage = << >>
    /\ req = [ r \in Requests |-> Idle ]

\* f with key k set to v (k may be new)
Put(f, k, v) == [ x \in DOMAIN f \cup {k} |-> IF x = k THEN v ELSE f[x] ]

\* the handler returns: the response is sent and nothing more runs
Return(r, status, body, cause) ==
    [ req[r] EXCEPT !.pc = "done",
                    !.response = [ NoResponse EXCEPT !.status = status, !.body = body ],
                    !.failed_at = cause,
                    !.trace = IF @ = <<>> THEN @ ELSE Append(@, "Failed") ]

\* ----------------------------------------------------------- the handler
\* lines 89-97: the form is validated
Receive(r, forms) ==
    /\ req[r].pc = "idle"
    /\ \E form \in forms :
        req' = [ req EXCEPT ![r] =
            IF ~form.has_file THEN Return(r, 400, MSG_NO_FILE, "none")
            ELSE IF form.filename = <<>> THEN Return(r, 400, MSG_NO_NAME, "none")
            ELSE IF ~allowed_file(form.filename) THEN Return(r, 400, MSG_BAD_TYPE, "none")
            ELSE [ @ EXCEPT !.pc = "name_original",
                            !.filename = form.filename,
                            !.stream = form.stream,
                            !.trace = << "Received" >> ] ]
    /\ UNCHANGED << DRY_RUN, now, storage >>

\* datetime.utcnow(): the clock has moved on to some second t >= now when it
\* is read
Clock == now..MaxTime

\* line 100
NameOriginal(r, rands) ==
    /\ req[r].pc = "name_original"
    /\ \E t \in Clock, v \in rands :
        /\ now' = t
        /\ req' = [ req EXCEPT ![r] =
            [ @ EXCEPT !.pc = "name_labeled",
                       !.original_name = unique_name(req[r].filename, <<>>, t, v),
                       !.original_call = [ t |-> t, v |-> v ] ] ]
    /\ UNCHANGED << DRY_RUN, storage >>

\* line 101
NameLabeled(r, rands) ==
    /\ req[r].pc = "name_labeled"
    /\ \E t \in Clock, v \in rands :
        /\ now' = t
        /\ req' = [ req EXCEPT ![r] =
            [ @ EXCEPT !.pc = "open",
                       !.labeled_name = unique_name(req[r].filename, LABELED, t, v),
                       !.labeled_call = [ t |-> t, v |-> v ] ] ]
    /\ UNCHANGED << DRY_RUN, storage >>

\* a mutant: the upload is written to storage before it is opened
OpenSavedUpload(r) ==
    /\ req[r].pc = "open"
    /\ storage' = Put(storage, req[r].original_name,
                      [ img |-> req[r].stream.img, drawn |-> <<>>, by |-> r ])
    /\ req' = [ req EXCEPT ![r] =
            IF req[r].stream.kind # "image"
            THEN Return(r, 400, MSG_IMAGE, "decode")
            ELSE [ @ EXCEPT !.pc = "save_original",
                            !.pil = pil_auto_prepare(req[r].stream.img),
                            !.trace = Append(@, "Decoded") ] ]
    /\ UNCHANGED << DRY_RUN, now >>

\* lines 107-109, 111-112: Image.open raises on bytes that are no image
Open(r) ==
    /\ req[r].pc = "open"
    /\ req' = [ req EXCEPT ![r] =
            IF req[r].stream.kind # "image"
            THEN Return(r, 400, MSG_IMAGE, "decode")
            ELSE [ @ EXCEPT !.pc = "save_original",
                            !.pil = pil_auto_prepare(req[r].stream.img),
                            !.trace = Append(@, "Decoded") ] ]
    /\ UNCHANGED << DRY_RUN, now, storage >>

\* lines 110-112: pil.save(save_path) writes the file or raises
SaveOriginal(r) ==
    /\ req[r].pc = "save_original"
    /\ \E ok \in BOOLEAN :
        IF ok
        THEN /\ storage' = Put(storage, req[r].original_name,
                               [ img |-> req[r].pil, drawn |-> <<>>, by |-> r ])
             /\ req' = [ req EXCEPT ![r] =
                    [ @ EXCEPT !.pc = "detect",
                               !.wrote = Append(@, "original"),
                               !.trace = Append(@, "Persisted(original)") ] ]
        ELSE /\ storage' = storage
             /\ req' = [ req EXCEPT ![r] = Return(r, 400, MSG_IMAGE, "storage(original)") ]
    /\ UNCHANGED << DRY_RUN, now >>

\* one detect_labels call, as the log keeps it
Call(image_bytes, res) == [ Bytes |-> image_bytes, ok |-> res.ok, Labels |-> res.Labels ]

\* a mutant: when Rekognition fails the fake labels are used instead
DetectWithFallback(r, results) ==
    /\ req[r].pc = "detect"
    /\ LET image_bytes == storage[req[r].original_name]
       IN  IF DRY_RUN
           THEN req' = [ req EXCEPT ![r] =
                    [ @ EXCEPT !.pc = "draw", !.labels = DryRunLabels,
                               !.trace = Append(@, "Detected") ] ]
           ELSE \E res \in results :
                    req' = [ req EXCEPT ![r] =
                        [ @ EXCEPT !.pc = "draw",
                                   !.calls = Append(@, Call(image_bytes, res)),
                                   !.labels = IF res.ok THEN res.Labels ELSE DryRunLabels,
                                   !.trace = Append(@, "Detected") ] ]
    /\ UNCHANGED << DRY_RUN, now, storage >>

\* lines 115-150: the saved file is read back and the labels are obtained
Detect(r, results) ==
    /\ req[r].pc = "detect"
    /\ LET image_bytes == storage[req[r].original_name]
       IN  IF DRY_RUN
           THEN req' = [ req EXCEPT ![r] =
                    [ @ EXCEPT !.pc = "draw", !.labels = DryRunLabels,
                               !.trace = Append(@, "Detected") ] ]
           ELSE \E res \in results :
                    req' = [ req EXCEPT ![r] =
                        IF res.ok
                        THEN [ @ EXCEPT !.pc = "draw",
                                        !.calls = Append(@, Call(image_bytes, res)),
                                        !.labels = res.Labels,
                                        !.trace = Append(@, "Detected") ]
                        ELSE [ Return(r, 500, MSG_AWS, "detection")
                                 EXCEPT !.calls = Append(@, Call(image_bytes, res)) ] ]
    /\ UNCHANGED << DRY_RUN, now, storage >>

\* a mutant: the handler renders the result without saving the drawn image
DrawWithoutSave(r, hosts) ==
    /\ req[r].pc = "draw"
    /\ \E arial \in hosts :
        req' = [ req EXCEPT ![r] =
            [ @ EXCEPT !.pc = "render",
                       !.font = LoadFont(arial),
                       !.drawn = DrawLabels(req[r].labels, req[r].pil.size[1],
                                            req[r].pil.size[2], LoadFont(arial)),
                       !.trace = Append(@, "Annotated") ] ]
    /\ UNCHANGED << DRY_RUN, now, storage >>

\* lines 153-166: every instance with a box is drawn onto pil; arial says
\* whether this host can load arial.ttf
Draw(r, hosts) ==
    /\ req[r].pc = "draw"
    /\ \E arial \in hosts :
        req' = [ req EXCEPT ![r] =
            [ @ EXCEPT !.pc = "save_labeled",
                       !.font = LoadFont(arial),
                       !.drawn = DrawLabels(req[r].labels, req[r].pil.size[1],
                                            req[r].pil.size[2], LoadFont(arial)),
                       !.trace = Append(@, "Annotated") ] ]
    /\ UNCHANGED << DRY_RUN, now, storage >>

\* lines 169-170: pil.save(labeled_path) writes the file or raises, and
\* nothing catches what it raises
SaveLabeled(r) ==
    /\ req[r].pc = "save_labeled"
    /\ \E ok \in BOOLEAN :
        IF ok
        THEN /\ storage' = Put(storage, req[r].labeled_name,
                               [ img |-> req[r].pil, drawn |-> req[r].drawn, by |-> r ])
             /\ req' = [ req EXCEPT ![r] =
                    [ @ EXCEPT !.pc = "render",
                               !.wrote = Append(@, "annotated"),
                               !.trace = Append(@, "Persisted(annotated)") ] ]
        ELSE /\ storage' = storage
             /\ req' = [ req EXCEPT ![r] =
                    Return(r, 500, MSG_UNHANDLED, "storage(annotated)") ]
    /\ UNCHANGED << DRY_RUN, now >>

\* lines 172-177
Render(r) ==
    /\ req[r].pc = "render"
    /\ req' = [ req EXCEPT ![r] =
            [ @ EXCEPT !.pc = "done",
                       !.response = [ status |-> 200, body |-> "result.html",
                                      original_image |-> req[r].original_name,
                                      labeled_image |-> req[r].labeled_name,
                                      labels |-> req[r].labels ],
                       !.trace = Append(@, "Done") ] ]
    /\ UNCHANGED << DRY_RUN, now, storage >>

\* ------------------------------------------------------------ the inputs
F_A == << "a", ".", "jpg" >>
F_LABELED_A == << "labeled_", "a", ".", "jpg" >>
F_UPPER == << "a", ".", "JPG" >>
F_GIF == << "a", ".", "gif" >>
F_NODOT == << "a" >>

Junk == [ kind |-> "junk", img |-> NoImage ]
ImageStream(img) == [ kind |-> "image", img |-> img ]

NoFileForm == [ has_file |-> FALSE, filename |-> <<>>, stream |-> Junk ]
FormsOf(filenames, streams) ==
    {NoFileForm} \cup [ has_file : {TRUE}, filename : filenames, stream : streams ]

Opaque == [ mode |-> "RGB", size |-> <<8, 4>>, orientation |-> 6, data |-> << <<255, 0, 255>> >> ]
Transparent ==
    [ mode |-> "RGBA", size |-> <<4, 4>>, orientation |-> 1, data |-> << <<255, 0, 0, 0>> >> ]

\* boxes: the centered half, one reaching outside the unit square, one with
\* only two of its keys, the empty dict
OutsideBox == [ Left |-> Q(-1, 4), Top |-> Q(3, 4), Width |-> Q(3, 2), Height |-> Q(1, 2) ]
PartialBox == [ Left |-> Q(1, 2), Top |-> Q(1, 8) ]
EmptyBox == [ k \in {} |-> Q(0, 1) ]

Boxed(b) == [ BoundingBox |-> b, Confidence |-> Q(9, 1) ]
Boxless == [ Confidence |-> Q(80, 1) ]

InstanceLists ==
    { << >>, << Boxless >>, << Boxed(CenterBox) >>, << Boxed(EmptyBox) >>,
      << Boxed(OutsideBox), Boxed(CenterBox) >>,
      << Boxless, Boxed(PartialBox) >>,
      << Boxed(CenterBox), Boxless, Boxed(OutsideBox) >> }

Labels ==
    { [ Name |-> "Car", Confidence |-> Q(8746, 100), Instances |-> il ] : il \in InstanceLists }
        \cup { [ Name |-> "Person", Confidence |-> Q(991, 10) ] }
        \cup { [ Name |-> "Dog", Instances |-> << Boxed(CenterBox) >> ] }

RECURSIVE SeqsUpTo(_, _)
SeqsUpTo(S, n) ==
    IF n = 0 THEN { << >> }
    ELSE LET shorter == SeqsUpTo(S, n - 1)
         IN  shorter \cup { Append(q, x) : q \in shorter, x \in S }

Failure == [ ok |-> FALSE, Labels |-> << >> ]
Response(labels) == [ ok |-> TRUE, Labels |-> labels ]

\* what detect_labels may answer: a ClientError or BotoCoreError, or labels
ResultsOf(labelsets) == {Failure} \cup { Response(l) : l \in labelsets }

\* the inputs of the concurrent requests
Forms ==
    { NoFileForm,
      [ has_file |-> TRUE, filename |-> F_A, stream |-> ImageStream(Transparent) ] }
Rands == 0..MaxRand
Results ==
    ResultsOf({ << [ Name |-> "Car", Confidence |-> Q(8746, 100),
                     Instances |-> << Boxless, Boxed(CenterBox) >> ],
                   [ Name |-> "Person", Confidence |-> Q(991, 10) ] >> })

Step(r, forms, rands, results, hosts) ==
    \/ Receive(r, forms)
    \/ NameOriginal(r, rands)
    \/ NameLabeled(r, rands)
    \/ Open(r)
    \/ SaveOriginal(r)
    \/ Detect(r, results)
    \/ Draw(r, hosts)
    \/ SaveLabeled(r)
    \/ Render(r)

\* concurrent requests
Next == \E r \in Requests : Step(r, Forms, Rands, Results, {FALSE})

Spec == Init /\ [][Next]_vars

\* one request, over every file name and every image of Images
Filenames == { <<>>, F_GIF, F_NODOT, F_A, F_UPPER, F_LABELED_A, << "/", "a", ".", "jpg" >>,
               << ".", "jpg" >> }
UploadForms == FormsOf(Filenames, { Junk } \cup { ImageStream(i) : i \in Images })

NextUpload == Step("r1", UploadForms, {0}, Results, BOOLEAN)

SpecUpload == Init /\ [][NextUpload]_vars

\* one request, over every box of Boxes on images of several sizes
BoxSizes == { <<800, 600>>, <<92, 92>>, <<76, 76>>, <<4, 4>> }
Offsets == { Q(-1, 4), Q(0, 1), Q(1, 4), Q(5, 4) }
Extents == { Q(0, 1), Q(1, 2), Q(3, 2) }
Boxes ==
    [ Left : Offsets, Top : Offsets, Width : Extents, Height : Extents ]
        \cup { PartialBox, [ Width |-> Q(1, 2) ] }
BoxForms == FormsOf({ F_A, F_GIF }, { Junk } \cup { ImageStream(i) : i \in ImagesOf({"RGB"}, BoxSizes) })
BoxResults ==
    ResultsOf({ << [ Name |-> n, Confidence |-> Q(8746, 100), Instances |-> << Boxed(b) >> ] >> :
                    n \in { "Car", "SampleObject" }, b \in Boxes })

NextBox == Step("r1", BoxForms, {0}, BoxResults, BOOLEAN)

SpecBox == Init /\ [][NextBox]_vars

\* one request, over every detection result of up to MaxLabels labels
DrawForms == FormsOf({ F_UPPER, F_GIF }, { Junk, ImageStream(Opaque) })

NextDraw == Step("r1", DrawForms, {0}, ResultsOf(SeqsUpTo(Labels, MaxLabels)), BOOLEAN)

SpecDraw == Init /\ [][NextDraw]_vars

\* --------------------------------------------------------------- claims
Pipeline ==
    << "Received", "Decoded", "Persisted(original)", "Detected", "Annotated",
       "Persisted(annotated)", "Done" >>

IsPrefix(p, q) == Len(p) <= Len(q) /\ SubSeq(q, 1, Len(p)) = p

Passed(r, state) == \E i \in DOMAIN req[r].trace : req[r].trace[i] = state

\* C1: the states a request passes are a prefix of Received, Decoded,
\* Persisted(original), Detected, Annotated, Persisted(annotated), Done, each
\* at most once, with at most a final Failed; the original file is in storage
\* before the detector runs, the annotated file is written only after the
\* drawing, and Done is reached only with both files written.
C1_PipelineOrder ==
    \A r \in Requests :
        LET q == req[r]
            n == Len(q.trace)
        IN  /\ \/ IsPrefix(q.trace, Pipeline)
               \/ /\ n > 0
                  /\ q.trace[n] = "Failed"
                  /\ IsPrefix(SubSeq(q.trace, 1, n - 1), Pipeline)
                  /\ ~Passed(r, "Done")
            /\ IsPrefix(q.wrote, << "original", "annotated" >>)
            /\ (Passed(r, "Detected") \/ q.calls # <<>> \/ q.labels # <<>>) =>
                    /\ q.wrote # <<>>
                    /\ Passed(r, "Persisted(original)")
                    /\ q.original_name \in DOMAIN storage
            /\ Len(q.wrote) = 2 =>
                    /\ Passed(r, "Annotated")
                    /\ q.labeled_name \in DOMAIN storage
                    /\ storage[q.labeled_name].drawn = q.drawn
            /\ (Passed(r, "Done") \/ q.response.status = 200) =>
                    /\ q.trace = Pipeline
                    /\ q.wrote = << "original", "annotated" >>
                    /\ { q.original_name, q.labeled_name } \subseteq DOMAIN storage

\* C1's case: a request went through the whole pipeline
C1_Witness ==
    \E r \in Requests :
        /\ req[r].trace = Pipeline
        /\ req[r].response.status = 200
        /\ req[r].drawn # <<>>

RemoteFailed(r) == \E i \in DOMAIN req[r].calls : ~req[r].calls[i].ok

\* C2: once the remote detect_labels call of a request has failed, the
\* request has ended with the Rekognition error, its original file is in
\* storage, it has written no annotated file, it made that one call only and
\* it holds no labels (the fake ones included).
C2_RemoteFailure ==
    \A r \in Requests :
        RemoteFailed(r) =>
            /\ ~DRY_RUN
            /\ req[r].pc = "done"
            /\ req[r].response.status = 500
            /\ req[r].response.body = MSG_AWS
            /\ req[r].original_name \in DOMAIN storage
            /\ req[r].wrote = << "original" >>
            /\ Len(req[r].calls) = 1
            /\ req[r].labels = <<>>
            /\ req[r].drawn = <<>>
            /\ ~Passed(r, "Detected")

\* C2's case: one request's detection failed while another one's file is
\* stored too
C2_Witness ==
    \E r, o \in Requests :
        /\ r # o
        /\ RemoteFailed(r)
        /\ req[o].response.status = 200
        /\ storage[req[r].original_name].by = r

\* C3: a request whose upload is no image writes nothing and calls no
\* detector: the storage directory stays as it was, and the request ends with
\* the image processing error.
C3_DecodeFailure ==
    \A r \in Requests :
        req[r].stream.kind = "junk" =>
            /\ storage = << >>
            /\ req[r].wrote = <<>>
            /\ req[r].calls = <<>>
            /\ req[r].labels = <<>>
            /\ req[r].pc = "done" =>
                    /\ req[r].response.status = 400
                    /\ req[r].response.body = MSG_IMAGE
                    /\ req[r].failed_at = "decode"

\* C3's case: junk bytes under a .jpg name were refused
C3_Witness ==
    \E r \in Requests :
        /\ req[r].stream.kind = "junk"
        /\ req[r].filename = F_A
        /\ req[r].pc = "done"
        /\ req[r].response.status = 400

\* C4: every failure is caught and reported with the error kind of the
\* component that raised: decode, detection service, or storage (a kind of
\* its own, for the original and for the annotated write).
C4_ErrorKinds ==
    \A r \in Requests :
        LET q == req[r]
        IN  /\ q.failed_at = "decode" => q.response.body = MSG_IMAGE
            /\ q.failed_at = "detection" => q.response.body = MSG_AWS
            /\ q.failed_at \in { "storage(original)", "storage(annotated)" } =>
                    q.response.body \notin { MSG_IMAGE, MSG_AWS, MSG_UNHANDLED }

\* the calls of unique_name made so far
NamerCalls ==
    { [ id |-> << r, 1 >>, filename |-> req[r].filename, prefix |-> <<>>,
        call |-> req[r].original_call, name |-> req[r].original_name ] :
            r \in { x \in Requests : req[x].original_call # NoCall } }
    \cup
    { [ id |-> << r, 2 >>, filename |-> req[r].filename, prefix |-> LABELED,
        call |-> req[r].labeled_call, name |-> req[r].labeled_name ] :
            r \in { x \in Requests : req[x].labeled_call # NoCall } }

\* C5 as stated: any two calls of the namer yield different identifiers.
C5_AlwaysDistinct ==
    \A a, b \in NamerCalls : a.id # b.id => a.name # b.name

\* C5 amended: two calls of the namer yield the same identifier only when
\* they read the same second and draw the same random suffix.
C5_DistinctUnlessSameDraw ==
    \A a, b \in NamerCalls :
        (a.id # b.id /\ a.name = b.name) => a.call = b.call

\* C5's case: two calls in the same second, for the same file name and
\* prefix, that drew different suffixes
C5_Witness ==
    \E a, b \in NamerCalls :
        /\ a.id # b.id
        /\ a.filename = b.filename /\ a.prefix = b.prefix
        /\ a.call.t = b.call.t /\ a.call.v # b.call.v
        /\ a.name # b.name

\* C8: with DRY_RUN set no request calls Rekognition or fails in detection,
\* and the labels of every request that passed detection are the one label
\* SampleObject, 99.1, with the one instance (0.25, 0.25, 0.5, 0.5), 99.1.
C8_Synthetic ==
    DRY_RUN =>
        \A r \in Requests :
            /\ req[r].calls = <<>>
            /\ req[r].failed_at # "detection"
            /\ req[r].response.body # MSG_AWS
            /\ Passed(r, "Persisted(original)") /\ req[r].pc # "detect" =>
                    /\ Passed(r, "Detected")
                    /\ Len(req[r].labels) = 1
                    /\ req[r].labels[1].Name = "SampleObject"
                    /\ req[r].labels[1].Confidence = << 991, 10 >>
                    /\ Len(req[r].labels[1].Instances) = 1
                    /\ req[r].labels[1].Instances[1].Confidence = << 991, 10 >>
                    /\ req[r].labels[1].Instances[1].BoundingBox =
                            [ Left |-> << 1, 4 >>, Top |-> << 1, 4 >>,
                              Width |-> << 1, 2 >>, Height |-> << 1, 2 >> ]
            /\ req[r].response.status = 200 => req[r].response.labels = req[r].labels

\* C8's case: a dry-run request on a transparent 8 by 4 image succeeded
C8_Witness ==
    /\ DRY_RUN
    /\ \E r \in Requests :
        /\ req[r].response.status = 200
        /\ req[r].stream.img.mode = "LA"
        /\ req[r].stream.img.size = << 8, 4 >>

\* the alpha of source pixel i of img, 255 in a mode without alpha
Alpha(img, i) ==
    CASE img.mode = "LA"   -> img.data[i][2]
      [] img.mode = "RGBA" -> img.data[i][4]
      [] OTHER             -> 255

\* C6: what the Normalizer returns is in mode RGB, and every source pixel
\* that was fully transparent, in whatever mode, is white in it.
C6_Normalized ==
    \A r \in Requests :
        Passed(r, "Decoded") =>
            /\ req[r].pil.mode = "RGB"
            /\ \A i \in DOMAIN req[r].stream.img.data :
                    /\ Len(req[r].pil.data[i]) = 3
                    /\ Alpha(req[r].stream.img, i) = 0 =>
                            req[r].pil.data[i] = << 255, 255, 255 >>

\* the one box of a result of one label with one instance
TheBox(r) == req[r].labels[1].Instances[1].BoundingBox

FullBox(r) ==
    /\ ~DRY_RUN
    /\ req[r].drawn # <<>>
    /\ DOMAIN TheBox(r) = { "Left", "Top", "Width", "Height" }

\* x = k * a, for rationals x and a and an integer k
IsProduct(x, k, a) == x[2] > 0 /\ x[1] * a[2] = k * a[1] * x[2]

\* x = k * a + k * b
IsSumOfProducts(x, k, a, b) ==
    x[2] > 0 /\ x[1] * a[2] * b[2] = (k * a[1] * b[2] + k * b[1] * a[2]) * x[2]

\* C7: the outline drawn for a box on a W by H image is at left = W * Left,
\* top = H * Top, right = left + W * Width, bottom = top + H * Height,
\* unclamped, and the centered half of an 800 by 600 image is at
\* (200, 150, 600, 450).
C7_PixelBox ==
    \A r \in Requests :
        FullBox(r) =>
            LET xy == req[r].drawn[1].xy
                W  == req[r].pil.size[1]
                H  == req[r].pil.size[2]
                b  == TheBox(r)
            IN  /\ req[r].drawn[1].op = "outline"
                /\ IsProduct(xy[1], W, b.Left)
                /\ IsProduct(xy[2], H, b.Top)
                /\ IsSumOfProducts(xy[3], W, b.Left, b.Width)
                /\ IsSumOfProducts(xy[4], H, b.Top, b.Height)
                /\ (W = 800 /\ H = 600 /\ b.Left = << 1, 4 >> /\ b.Top = << 1, 4 >>
                        /\ b.Width = << 1, 2 >> /\ b.Height = << 1, 2 >>) =>
                        xy = << << 200, 1 >>, << 150, 1 >>, << 600, 1 >>, << 450, 1 >> >>

\* C7's case: on an 800 by 600 image a box that starts left of the canvas and
\* ends below it
C7_Witness ==
    \E r \in Requests :
        /\ FullBox(r)
        /\ req[r].pil.size = << 800, 600 >>
        /\ req[r].drawn[1].xy[1] = << -200, 1 >>
        /\ req[r].drawn[1].xy[4] = << 1650, 1 >>

\* C9: the label background starts at the box's left edge, is text height
\* plus 8 high and never starts above row 0; its bottom is the box's top
\* exactly when that top is at least text height plus 8, otherwise its top is
\* row 0; its right edge is the left edge plus text width plus 8, whatever
\* the canvas.
C9_LabelBackground ==
    \A r \in Requests :
        req[r].drawn # <<>> =>
            LET box    == req[r].drawn[1].xy
                bg     == req[r].drawn[2].xy
                text_h == req[r].font.ch
                text_w == req[r].font.cw * TextLen(req[r].drawn[2].text)
                room   == box[2][1] >= (text_h + 8) * box[2][2]
            IN  /\ req[r].drawn[2].op = "fill"
                /\ bg[1] = box[1]
                /\ bg[2][2] > 0 /\ bg[4][2] > 0
                /\ bg[4][1] * bg[2][2] - bg[2][1] * bg[4][2]
                        = (text_h + 8) * bg[2][2] * bg[4][2]
                /\ bg[2][1] >= 0
                /\ (bg[4] = box[2]) <=> room
                /\ ~room => bg[2] = << 0, 1 >>
                /\ bg[3][1] * box[1][2] = (box[1][1] + (text_w + 8) * box[1][2]) * bg[3][2]

\* C9's case: a box whose top leaves no room for the label, so the
\* background is pinned to row 0 and reaches below the box's top
C9_Witness ==
    \E r \in Requests :
        /\ req[r].drawn # <<>>
        /\ req[r].drawn[1].xy[2] = << 1, 1 >>
        /\ req[r].drawn[2].xy[2] = << 0, 1 >>
        /\ req[r].drawn[2].xy[4] = << 19, 1 >>

\* the places <<label, instance>> of the instances that have a bounding box
BoxedPlaces(labels) ==
    UNION { { << i, j >> : j \in { k \in DOMAIN labels[i].Instances :
                                    /\ "BoundingBox" \in DOMAIN labels[i].Instances[k]
                                    /\ DOMAIN labels[i].Instances[k].BoundingBox # {} } } :
            i \in { n \in DOMAIN labels : "Instances" \in DOMAIN labels[n] } }

Before(p, q) == p[1] < q[1] \/ (p[1] = q[1] /\ p[2] < q[2])

\* the position of place p among the boxed places, in iteration order
Rank(labels, p) == 1 + Cardinality({ q \in BoxedPlaces(labels) : Before(q, p) })

\* C10: what has been drawn is, in the iteration order of the labels and of
\* each label's instances, one outline, background and text for each
\* instance that has a bounding box and nothing else; on success the labels
\* returned are the provider's answer as it came.
C10_DrawnInOrder ==
    \A r \in Requests :
        Passed(r, "Annotated") =>
            LET labels == req[r].labels
                places == BoxedPlaces(labels)
            IN  /\ Len(req[r].drawn) = 3 * Cardinality(places)
                /\ \A p \in places :
                    LET k == 3 * (Rank(labels, p) - 1)
                        b == labels[p[1]].Instances[p[2]].BoundingBox
                    IN  /\ req[r].drawn[k + 1].op = "outline"
                        /\ req[r].drawn[k + 2].op = "fill"
                        /\ req[r].drawn[k + 3].op = "text"
                        /\ req[r].drawn[k + 1].text.name = labels[p[1]].Name
                        /\ IsProduct(req[r].drawn[k + 1].xy[1], req[r].pil.size[1],
                                     Get(b, "Left", << 0, 1 >>))
                        /\ IsProduct(req[r].drawn[k + 1].xy[2], req[r].pil.size[2],
                                     Get(b, "Top", << 0, 1 >>))
                /\ ~DRY_RUN => labels = req[r].calls[1].Labels
                /\ req[r].response.status = 200 =>
                        /\ req[r].response.labels = labels
                        /\ ~DRY_RUN => req[r].response.labels = req[r].calls[1].Labels

\* C10's case: a result whose first label has a boxless instance between two
\* boxed ones and whose second label has no instances was drawn and returned
C10_Witness ==
    \E r \in Requests :
        /\ req[r].response.status = 200
        /\ Len(req[r].response.labels) = 2
        /\ "Instances" \in DOMAIN req[r].response.labels[1]
        /\ Len(req[r].response.labels[1].Instances) = 3
        /\ "Instances" \in DOMAIN req[r].response.labels[2]
        /\ req[r].response.labels[2].Instances = << >>
        /\ Len(req[r].drawn) = 6

====
